---- MODULE Spec2Model ----
\* Verification model of src/main.py (Google Ads strategy generator):
\*   clean_for_pdf           the text sanitizer
\*   create_pdf_report       the line-by-line Markdown-subset renderer
\*   send_email_with_pdf     artifact naming, PDF creation and mail dispatch
\*   main                    the three-step session flow
\*
\* A Python str is modelled as a sequence of characters.  An ASCII character is
\* the one-character string itself; a non-ASCII character is named by its code
\* point ("U+201A"; the backtick, which TLA+ strings cannot hold, is "U+0060").
EXTENDS Integers, Sequences, FiniteSets, TLC

VARIABLES
    \* clean_for_pdf applied twice (sanitizer)
    cx, cy, cz, cpc,
    \* create_pdf_report
    raw_text, lines, idx, pdf, trace, rpc,
    \* artifact naming in send_email_with_pdf
    company_name, safe_name, pdf_filename, npc,
    \* main: st.session_state and what one script run shows / calls
    step, strategy_data, user_info, shown, calls, last

cleanVars  == <<cx, cy, cz, cpc>>
renderVars == <<raw_text, lines, idx, pdf, trace, rpc>>
nameVars   == <<company_name, safe_name, pdf_filename, npc>>
flowVars   == <<step, strategy_data, user_info, shown, calls, last>>
vars       == <<cleanVars, renderVars, nameVars, flowVars>>

----------------------------------------------------------------------------
\* Python str primitives

\* str.startswith(p)
StartsWith(s, p) == Len(s) >= Len(p) /\ SubSeq(s, 1, Len(p)) = p

\* p in s
Contains(s, p) ==
    \E k \in 1..(Len(s) - Len(p) + 1) : SubSeq(s, k, k + Len(p) - 1) = p

\* str.replace(old, new): left to right, non-overlapping; old is never empty
\* here.  The leftmost occurrence is replaced, then the text after it.
RECURSIVE Replace(_, _, _)
Replace(s, old, new) ==
    LET at == {k \in 1..(Len(s) - Len(old) + 1) : SubSeq(s, k, k + Len(old) - 1) = old}
    IN  IF at = {} THEN s
        ELSE LET k == CHOOSE j \in at : \A m \in at : j <= m
             IN  SubSeq(s, 1, k - 1) \o new
                     \o Replace(SubSeq(s, k + Len(old), Len(s)), old, new)

\* str.lstrip(chars) / str.rstrip(chars): every leading / trailing character of the set
RECURSIVE LStripChars(_, _)
LStripChars(s, chars) ==
    IF s # <<>> /\ Head(s) \in chars THEN LStripChars(Tail(s), chars) ELSE s

RECURSIVE RStripChars(_, _)
RStripChars(s, chars) ==
    IF s # <<>> /\ s[Len(s)] \in chars
    THEN RStripChars(SubSeq(s, 1, Len(s) - 1), chars) ELSE s

\* the whitespace str.strip() removes (the part of it that can occur inside a line)
Whitespace == {" ", "\t", "\r"}

\* str.strip()
Strip(s) == RStripChars(LStripChars(s, Whitespace), Whitespace)

\* str.split(sep) for a one-character separator: always at least one piece
RECURSIVE Split(_, _)
Split(s, sep) ==
    IF \A k \in 1..Len(s) : s[k] # sep THEN <<s>>
    ELSE LET k == CHOOSE j \in 1..Len(s) :
                      s[j] = sep /\ \A m \in 1..(j - 1) : s[m] # sep
         IN  <<SubSeq(s, 1, k - 1)>> \o Split(SubSeq(s, k + 1, Len(s)), sep)

\* the characters of s that are in keep / that are not in drop, in order
SelectChars(s, keep) == LET Kept(c) == c \in keep IN SelectSeq(s, Kept)

DropChars(s, drop) == LET Kept(c) == c \notin drop IN SelectSeq(s, Kept)

CountChar(s, c) == Cardinality({k \in 1..Len(s) : s[k] = c})

\* all strings over an alphabet up to a length
StringsUpTo(alphabet, n) == UNION {[1..m -> alphabet] : m \in 0..n}

----------------------------------------------------------------------------
\* clean_for_pdf

\* characters of the model that latin-1 cannot encode
NonLatin1 == {"U+201A", "U+1F600"}

\* the replacements dict, in insertion order (the order the loop applies them)
replacements == <<
    [char |-> <<"U+201A", "U+00C4", "U+00F4">>, replacement |-> <<"'">>],
    [char |-> <<"U+201A", "U+00C4", "U+00F2">>, replacement |-> <<"'">>],
    [char |-> <<"U+201A", "U+00C4", "U+00FA">>, replacement |-> <<"\"">>],
    [char |-> <<"U+201A", "U+00C4", "U+00F9">>, replacement |-> <<"\"">>],
    [char |-> <<"U+201A", "U+00C4", "U+00EC">>, replacement |-> <<"-">>],
    [char |-> <<"U+201A", "U+00C4", "U+00EE">>, replacement |-> <<"-">>],
    [char |-> <<"U+201A", "U+00C4", "U+00B6">>, replacement |-> <<".", ".", ".">>],
    [char |-> <<"*", "*">>,      replacement |-> <<>>],
    [char |-> <<"_", "_">>,      replacement |-> <<>>],
    [char |-> <<"#", "#">>,      replacement |-> <<>>],
    [char |-> <<"#", "#", "#">>, replacement |-> <<>>],
    [char |-> <<"#">>,           replacement |-> <<>>],
    [char |-> <<"U+0060">>,           replacement |-> <<>>] >>

\* for char, replacement in replacements.items(): text = text.replace(char, replacement)
RECURSIVE ApplyReplacements(_, _)
ApplyReplacements(text, k) ==
    IF k > Len(replacements) THEN text
    ELSE ApplyReplacements(
             Replace(text, replacements[k].char, replacements[k].replacement), k + 1)

\* text.encode('latin-1', 'ignore').decode('latin-1')
Latin1Ignore(text) == DropChars(text, NonLatin1)

\* every caller passes a str, so the isinstance branch is not taken
clean_for_pdf(text) == Latin1Ignore(ApplyReplacements(text, 1))

----------------------------------------------------------------------------
\* Specification SpecClean: clean_for_pdf applied to a string and to its result

MaxCleanLen == 4

CleanAlphabet ==
    {"*", "_", "#", "U+0060", "a", "U+1F600", "U+201A", "U+00C4", "U+00F4"}

CleanIdle == cx = <<>> /\ cy = <<>> /\ cz = <<>> /\ cpc = "idle"
RenderIdle ==
    /\ raw_text = <<>> /\ lines = <<>> /\ idx = 0
    /\ pdf = [font |-> <<>>, text_color |-> <<>>, ops |-> <<>>]
    /\ trace = <<>> /\ rpc = "idle"
NameIdle ==
    company_name = <<>> /\ safe_name = <<>> /\ pdf_filename = <<>> /\ npc = "idle"
FlowIdle ==
    /\ step = 0 /\ strategy_data = <<>> /\ user_info = <<>> /\ shown = <<>>
    /\ calls = <<>> /\ last = <<>>

InitClean ==
    /\ cx \in StringsUpTo(CleanAlphabet, MaxCleanLen)
    /\ cy = <<>> /\ cz = <<>> /\ cpc = "start"
    /\ RenderIdle /\ NameIdle /\ FlowIdle

CleanOnce ==
    /\ cpc = "start"
    /\ cy' = clean_for_pdf(cx)
    /\ cpc' = "once"
    /\ UNCHANGED <<cx, cz, renderVars, nameVars, flowVars>>

CleanTwice ==
    /\ cpc = "once"
    /\ cz' = clean_for_pdf(cy)
    /\ cpc' = "twice"
    /\ UNCHANGED <<cx, cy, renderVars, nameVars, flowVars>>

NextClean == CleanOnce \/ CleanTwice

SpecClean == InitClean /\ [][NextClean]_vars

\* C5: clean_for_pdf is idempotent: sanitizing a sanitized string changes nothing.
C5_Idempotent == cpc = "twice" => cz = cy

----------------------------------------------------------------------------
\* PDFReport: the render state (current font, current text colour) and the
\* sequence of drawing operations issued so far.  Page geometry (cursor, page
\* breaks, header/footer on later pages) belongs to the FPDF library.

Arial(style, size) == [family |-> "Arial", style |-> style, size |-> size]

set_font(p, family, style, size) ==
    [p EXCEPT !.font = [family |-> family, style |-> style, size |-> size]]

set_text_color(p, r, g, b) == [p EXCEPT !.text_color = <<r, g, b>>]

\* a drawing operation is recorded with the style it is drawn in
Draw(p, op, w, h, txt) ==
    [p EXCEPT !.ops = Append(@, [op |-> op, w |-> w, h |-> h, txt |-> txt,
                                 font |-> p.font, text_color |-> p.text_color])]

cell(p, w, h, txt) == Draw(p, "cell", w, h, txt)
multi_cell(p, w, h, txt) == Draw(p, "multi_cell", w, h, txt)
ln(p, h) == Draw(p, "ln", 0, h, <<>>)

\* PDFReport.chapter_title
chapter_title(p, label) ==
    LET p1 == set_font(p, "Arial", "B", 12)
        p2 == set_text_color(p1, 0, 51, 102)
        p3 == cell(p2, 0, 8, label)
    IN  ln(p3, 1)

\* body_text without its own set_font / set_text_color (relying on a reset
\* that chapter_title does not perform)
body_text_keeps_style(p, text) == ln(multi_cell(p, 0, 5, text), 3)

\* PDFReport.body_text
body_text(p, text) ==
    LET p1 == set_font(p, "Arial", "", 10)
        p2 == set_text_color(p1, 50, 50, 50)
        p3 == multi_cell(p2, 0, 5, text)
    IN  ln(p3, 3)

----------------------------------------------------------------------------
\* create_pdf_report: the body of the loop over lines

HeadingMaxLen == 60

\* chr(149)
BulletGlyph == "U+0095"

\* the skip test with the separator check alone
IsSkipSeparatorOnly(clean_line) == Contains(clean_line, <<"-", "-", "-">>)

\* "---" in clean_line or clean_line.startswith("|")
IsSkip(clean_line) ==
    Contains(clean_line, <<"-", "-", "-">>) \/ StartsWith(clean_line, <<"|">>)

\* the heading test made on the sanitized line, whose markers are already gone
IsHeadingOnCleanLine(line, clean_line) ==
    /\ Len(clean_line) < HeadingMaxLen
    /\ (StartsWith(clean_line, <<"#">>) \/ StartsWith(clean_line, <<"*", "*">>))

\* len(clean_line) < 60 and (line.startswith('#') or line.startswith('**'))
IsHeading(line, clean_line) ==
    /\ Len(clean_line) < HeadingMaxLen
    /\ (StartsWith(line, <<"#">>) \/ StartsWith(line, <<"*", "*">>))

\* line.strip().startswith('-') or line.strip().startswith('*')
IsBullet(line) ==
    StartsWith(Strip(line), <<"-">>) \/ StartsWith(Strip(line), <<"*">>)

\* exactly one leading marker character removed
BulletContentOneMarker(clean_line) ==
    Strip(IF clean_line # <<>> /\ Head(clean_line) \in {"-", "*"}
          THEN Tail(clean_line) ELSE clean_line)

\* clean_line.lstrip('-').lstrip('*').strip()
BulletContent(clean_line) ==
    Strip(LStripChars(LStripChars(clean_line, {"-"}), {"*"}))

\* the bullet branch
bullet_item(p, clean_line) ==
    LET p1 == set_font(p, "Arial", "", 10)
        p2 == set_text_color(p1, 50, 50, 50)
        p3 == cell(p2, 5, 0, <<>>)
        content == BulletContent(clean_line)
        p4 == multi_cell(p3, 0, 5, <<BulletGlyph, " ">> \o content)
    IN  ln(p4, 1)

\* the loop body with the bullet test ahead of the heading test
ProcessLineBulletFirst(p, line) ==
    LET clean_line == clean_for_pdf(Strip(line))
    IN  IF IsSkip(clean_line)
        THEN [pdf |-> p, branch |-> "Skip"]
        ELSE IF clean_line = <<>>
        THEN [pdf |-> ln(p, 2), branch |-> "Blank"]
        ELSE IF IsBullet(line)
        THEN [pdf |-> bullet_item(p, clean_line), branch |-> "Bullet"]
        ELSE IF IsHeading(line, clean_line)
        THEN [pdf |-> chapter_title(ln(p, 3), clean_line), branch |-> "Heading"]
        ELSE [pdf |-> body_text(p, clean_line), branch |-> "Paragraph"]

\* one iteration: the render state after the line, and the branch that ran
ProcessLine(p, line) ==
    LET clean_line == clean_for_pdf(Strip(line))
    IN  IF IsSkip(clean_line)
        THEN [pdf |-> p, branch |-> "Skip"]
        ELSE IF clean_line = <<>>
        THEN [pdf |-> ln(p, 2), branch |-> "Blank"]
        ELSE IF IsHeading(line, clean_line)
        THEN [pdf |-> chapter_title(ln(p, 3), clean_line), branch |-> "Heading"]
        ELSE IF IsBullet(line)
        THEN [pdf |-> bullet_item(p, clean_line), branch |-> "Bullet"]
        ELSE [pdf |-> body_text(p, clean_line), branch |-> "Paragraph"]

----------------------------------------------------------------------------
\* Specification SpecRender: one call of create_pdf_report

MaxDocLen == 4
MaxLongPre == 2

RenderAlphabet == {"#", "*", "-", "|", " ", "a", "U+1F600", "\n"}

Scenario1 ==
    <<"#", "#", "#", " ", "E", "x", "e", "c", "u", "t", "i", "v", "e", " ", "S",
      "u", "m", "m", "a", "r", "y", "\n", "-", " ", "S", "a", "v", "e", " ", "2",
      "0", "%", " ", "o", "n", " ", "s", "p", "e", "n", "d", "\n", "T", "h", "i",
      "s", " ", "i", "s", " ", "a", " ", "n", "o", "r", "m", "a", "l", " ", "p",
      "a", "r", "a", "g", "r", "a", "p", "h", ".", "\n">>

Scenario2 ==
    <<"|", " ", "A", " ", "|", " ", "B", " ", "|", "\n", "|", "-", "-", "-", "|",
      "-", "-", "-", "|", "\n", "|", " ", "1", " ", "|", " ", "2", " ", "|">>

Fill(k) == [j \in 1..k |-> "a"]

\* documents: every short text; every shorter text followed by a run of letters
\* one short of the heading threshold (so that last lines of 59 and of 60 and
\* more characters occur); and the two scenario documents
RenderInputs ==
    StringsUpTo(RenderAlphabet, MaxDocLen)
    \cup {d \o Fill(HeadingMaxLen - 1) : d \in StringsUpTo(RenderAlphabet, MaxLongPre)}
    \cup {Scenario1, Scenario2}

\* the style FPDF is left in by add_page(): the library's defaults, or the
\* style header() selected, depending on what the library restores
InitialStyles ==
    { [font |-> [family |-> "", style |-> "", size |-> 12], text_color |-> <<0, 0, 0>>],
      [font |-> Arial("B", 15), text_color |-> <<0, 51, 102>>] }

InitRender ==
    /\ raw_text \in RenderInputs
    /\ lines = Split(raw_text, "\n")
    /\ idx = 1
    /\ \E s \in InitialStyles :
           pdf = [font |-> s.font, text_color |-> s.text_color, ops |-> <<>>]
    /\ trace = <<>>
    /\ rpc = "loop"
    /\ CleanIdle /\ NameIdle /\ FlowIdle

\* for line in lines: ...
RenderLine ==
    /\ rpc = "loop"
    /\ idx <= Len(lines)
    /\ \E r \in {ProcessLine(pdf, lines[idx])} :
           /\ pdf' = r.pdf
           /\ trace' = Append(trace, [line |-> idx, branch |-> r.branch,
                                      first |-> Len(pdf.ops) + 1,
                                      last |-> Len(r.pdf.ops)])
    /\ idx' = idx + 1
    /\ UNCHANGED <<raw_text, lines, rpc, cleanVars, nameVars, flowVars>>

\* pdf.output(filename); return filename -- or the I/O error of an unwritable file
Output ==
    /\ rpc = "loop"
    /\ idx > Len(lines)
    /\ \E ok \in BOOLEAN : rpc' = IF ok THEN "done" ELSE "raised"
    /\ UNCHANGED <<raw_text, lines, idx, pdf, trace, cleanVars, nameVars, flowVars>>

NextRender == RenderLine \/ Output

SpecRender == InitRender /\ [][NextRender]_vars

----------------------------------------------------------------------------
\* Properties of create_pdf_report (checked under SpecRender)

Processed == 1..Len(trace)
LineOf(k) == lines[trace[k].line]
CleanOf(k) == clean_for_pdf(Strip(LineOf(k)))
BranchOf(k) == trace[k].branch
OpsOf(k) == SubSeq(pdf.ops, trace[k].first, trace[k].last)
HasText(o) == o.txt # <<>>
TextOpsOf(k) == SelectSeq(OpsOf(k), HasText)
Rendered == {"Heading", "Bullet", "Paragraph"}
LoopDone == rpc = "loop" /\ idx > Len(lines)

HeadingStyle == [font |-> Arial("B", 12), text_color |-> <<0, 51, 102>>]
BodyStyle    == [font |-> Arial("", 10),  text_color |-> <<50, 50, 50>>]
StyleOf(o) == [font |-> o.font, text_color |-> o.text_color]

\* the classification rules in the documented order, first match wins
FirstMatch(line) ==
    LET c == clean_for_pdf(Strip(line))
        rule == << Contains(c, <<"-", "-", "-">>) \/ StartsWith(c, <<"|">>),
                   Len(c) = 0,
                   Len(c) < HeadingMaxLen
                       /\ (StartsWith(line, <<"#">>) \/ StartsWith(line, <<"*", "*">>)),
                   Len(Strip(line)) > 0 /\ Strip(line)[1] \in {"-", "*"},
                   TRUE >>
        name == <<"Skip", "Blank", "Heading", "Bullet", "Paragraph">>
    IN  name[CHOOSE j \in 1..5 : rule[j] /\ \A m \in 1..(j - 1) : ~rule[m]]

\* C6: every input line gets exactly one classification among Skip, Blank,
\* Heading, Bullet and Paragraph, the first that matches in that order; lines
\* are processed once each, in input order, and a line draws at most one text
\* block (exactly one when it is rendered, none when it is skipped or blank).
C6_OneClassification ==
    /\ Len(trace) = idx - 1
    /\ \A k \in Processed :
        /\ trace[k].line = k
        /\ BranchOf(k) = FirstMatch(lines[k])
        /\ trace[k].first = (IF k = 1 THEN 1 ELSE trace[k - 1].last + 1)
        /\ Len(TextOpsOf(k)) = (IF BranchOf(k) \in Rendered THEN 1 ELSE 0)
        /\ BranchOf(k) = "Skip" => OpsOf(k) = <<>>
    /\ Len(trace) > 0 => trace[Len(trace)].last = Len(pdf.ops)

\* the first scenario, fully processed: one line of each rendered kind, then
\* the empty piece after the final newline
C6_Witness ==
    /\ LoopDone
    /\ raw_text = Scenario1
    /\ [k \in Processed |-> BranchOf(k)] = <<"Heading", "Bullet", "Paragraph", "Blank">>

\* a row of a Markdown table that is not the separator row: it begins with a
\* pipe and holds no '-'
TableContentRow(line) ==
    StartsWith(Strip(line), <<"|">>) /\ CountChar(line, "-") = 0

\* C1 as claimed: only the separator row is skipped; every content row of a
\* table is classified Paragraph and drawn as text with its pipes intact.
C1_ContentRowsAreParagraphs ==
    \A k \in Processed :
        TableContentRow(LineOf(k)) =>
            /\ BranchOf(k) = "Paragraph"
            /\ Len(TextOpsOf(k)) = 1
            /\ CountChar(TextOpsOf(k)[1].txt, "|") = CountChar(LineOf(k), "|")

\* C1 (amended): every row that begins with a pipe -- separator row and content
\* rows alike -- is skipped and draws nothing; a line is skipped exactly when
\* its sanitized text contains '---' or begins with '|'; a pipe-delimited row
\* that is not skipped keeps all its pipe characters in the one block it draws.
C1_PipeRowsSkipped ==
    \A k \in Processed : LET c == CleanOf(k) IN
        /\ StartsWith(Strip(LineOf(k)), <<"|">>) =>
               BranchOf(k) = "Skip" /\ OpsOf(k) = <<>>
        /\ BranchOf(k) = "Skip" <=>
               \/ Contains(c, <<"-", "-", "-">>)
               \/ (c # <<>> /\ c[1] = "|")
        /\ (BranchOf(k) \in Rendered /\ CountChar(LineOf(k), "|") > 0) =>
               /\ Len(TextOpsOf(k)) = 1
               /\ CountChar(TextOpsOf(k)[1].txt, "|") = CountChar(LineOf(k), "|")

\* the table of the second scenario, fully processed: three rows, all skipped
C1_Witness ==
    /\ LoopDone
    /\ raw_text = Scenario2
    /\ [k \in Processed |-> BranchOf(k)] = <<"Skip", "Skip", "Skip">>
    /\ pdf.ops = <<>>

\* a line whose trimmed content starts with '-' or '*'
MarkerFirst(line) == Strip(line) # <<>> /\ Strip(line)[1] \in {"-", "*"}

\* the line with one leading marker character and the whitespace after it removed
OneMarkerRemoved(c) == Strip(IF c # <<>> /\ c[1] \in {"-", "*"} THEN Tail(c) ELSE c)

\* the number of leading characters of s, from position from on, equal to c
LeadingRun(s, from, c) ==
    Cardinality({j \in from..Len(s) : \A m \in from..j : s[m] = c})

\* s without its leading run of '-' and the run of '*' that follows it, trimmed
MarkerRunsRemoved(s) ==
    LET n1 == LeadingRun(s, 1, "-")
        n2 == LeadingRun(s, n1 + 1, "*")
    IN  Strip(SubSeq(s, n1 + n2 + 1, Len(s)))

\* C2 as claimed: every line whose trimmed content starts with '-' or '*' is a
\* Bullet, drawn as the line with exactly one leading marker character and the
\* whitespace after it removed.
C2_OneMarkerStripped ==
    \A k \in Processed :
        MarkerFirst(LineOf(k)) =>
            /\ BranchOf(k) = "Bullet"
            /\ Len(TextOpsOf(k)) = 1
            /\ TextOpsOf(k)[1].txt = <<BulletGlyph, " ">> \o OneMarkerRemoved(CleanOf(k))

\* C2 (amended): a line whose trimmed content starts with '-' or '*' is a
\* Bullet exactly when no earlier rule (Skip, Blank, Heading) takes it; a Bullet
\* draws the glyph, a space, and the sanitized line without its whole leading
\* run of '-' and the run of '*' after it, trimmed of surrounding whitespace.
C2_BulletStripsMarkerRuns ==
    \A k \in Processed : LET c == CleanOf(k) IN
        /\ BranchOf(k) = "Bullet" <=>
               /\ MarkerFirst(LineOf(k))
               /\ ~Contains(c, <<"-", "-", "-">>)
               /\ c # <<>>
               /\ c[1] # "|"
               /\ ~(/\ Len(c) < HeadingMaxLen
                    /\ (LineOf(k)[1] = "#" \/ StartsWith(LineOf(k), <<"*", "*">>)))
        /\ BranchOf(k) = "Bullet" =>
               /\ Len(TextOpsOf(k)) = 1
               /\ TextOpsOf(k)[1].op = "multi_cell"
               /\ TextOpsOf(k)[1].txt =
                      <<BulletGlyph, " ">> \o MarkerRunsRemoved(c)

\* a bullet that begins with two markers has both removed
C2_Witness ==
    \E k \in Processed :
        /\ BranchOf(k) = "Bullet"
        /\ StartsWith(LineOf(k), <<"-", "-">>)
        /\ TextOpsOf(k)[1].txt = <<BulletGlyph, " ", "a">>

\* a line that opens with a heading or emphasis marker
MarkerLine(line) == StartsWith(line, <<"#">>) \/ StartsWith(line, <<"*", "*">>)

\* C3 as claimed: every line made of heading/emphasis markers and short
\* content (sanitized length below 60) is classified Heading, never Bullet or
\* Paragraph.
C3_MarkerLinesAreHeadings ==
    \A k \in Processed :
        (MarkerLine(LineOf(k)) /\ Len(CleanOf(k)) < HeadingMaxLen) =>
            BranchOf(k) = "Heading"

\* C3 (amended): a line is classified Heading exactly when its first character
\* is '#' or its first two are '**' (no whitespace before them), its sanitized
\* text is non-empty and shorter than 60 characters, and that text neither
\* contains '---' nor begins with '|'; such a line is never Bullet or Paragraph.
C3_HeadingExactly ==
    \A k \in Processed : LET c == CleanOf(k) IN
        BranchOf(k) = "Heading" <=>
            /\ LineOf(k) # <<>>
            /\ (LineOf(k)[1] = "#" \/ StartsWith(LineOf(k), <<"*", "*">>))
            /\ Len(c) \in 1..(HeadingMaxLen - 1)
            /\ ~Contains(c, <<"-", "-", "-">>)
            /\ c[1] # "|"

\* a heading whose sanitized text is one character short of the threshold
C3_Witness ==
    \E k \in Processed :
        /\ BranchOf(k) = "Heading"
        /\ Len(CleanOf(k)) = HeadingMaxLen - 1
        /\ TextOpsOf(k)[1].txt = CleanOf(k)

S1_Heading ==
    <<"E", "x", "e", "c", "u", "t", "i", "v", "e", " ", "S", "u", "m", "m", "a",
      "r", "y">>

S1_Bullet ==
    <<"S", "a", "v", "e", " ", "2", "0", "%", " ", "o", "n", " ", "s", "p", "e",
      "n", "d">>

S1_Paragraph ==
    <<"T", "h", "i", "s", " ", "i", "s", " ", "a", " ", "n", "o", "r", "m", "a",
      "l", " ", "p", "a", "r", "a", "g", "r", "a", "p", "h", ".">>

\* the text of every block drawn so far, in drawing order
VisibleTexts == LET t == SelectSeq(pdf.ops, HasText) IN [j \in 1..Len(t) |-> t[j].txt]

\* C4 as claimed: the visible text of a Heading or Paragraph is the sanitized
\* line with surrounding whitespace trimmed (a Bullet's is the glyph and its
\* trimmed content), blocks appear in input order, and the first scenario draws
\* exactly 'Executive Summary', the glyph with 'Save 20% on spend', and
\* 'This is a normal paragraph.'.
C4_VisibleTextTrimmed ==
    /\ \A k \in Processed :
        /\ BranchOf(k) \in {"Heading", "Paragraph"} =>
               TextOpsOf(k)[1].txt = Strip(clean_for_pdf(LineOf(k)))
        /\ BranchOf(k) = "Bullet" =>
               /\ SubSeq(TextOpsOf(k)[1].txt, 1, 2) = <<BulletGlyph, " ">>
               /\ LET c == SubSeq(TextOpsOf(k)[1].txt, 3, Len(TextOpsOf(k)[1].txt))
                  IN  c = Strip(c)
    /\ (raw_text = Scenario1 /\ LoopDone) =>
           VisibleTexts = <<S1_Heading, <<BulletGlyph, " ">> \o S1_Bullet, S1_Paragraph>>

\* C10 as claimed: immediately after a Heading line has been processed the
\* current font and text colour are the body font (regular, size 10) and the
\* body colour.
C10_StyleResetAfterHeading ==
    (Len(trace) > 0 /\ BranchOf(Len(trace)) = "Heading") =>
        (pdf.font = BodyStyle.font /\ pdf.text_color = BodyStyle.text_color)

\* C10 (amended): a Heading is drawn in the bold heading font (size 12) and the
\* brand colour, and the style is not reset afterwards: immediately after a
\* Heading line the current font and colour are still the heading's.  Body
\* style is selected again by the next Bullet or Paragraph before it draws, so
\* every Bullet and Paragraph is drawn in the body font (regular, size 10) and
\* body colour.
C10_BodyStyleSetByNextBlock ==
    /\ \A k \in Processed :
        /\ BranchOf(k) = "Heading" =>
               /\ TextOpsOf(k)[1].op = "cell"
               /\ StyleOf(TextOpsOf(k)[1]) = HeadingStyle
        /\ BranchOf(k) \in {"Bullet", "Paragraph"} =>
               /\ TextOpsOf(k)[1].op = "multi_cell"
               /\ StyleOf(TextOpsOf(k)[1]) = BodyStyle
    /\ (Len(trace) > 0 /\ BranchOf(Len(trace)) = "Heading") =>
           (pdf.font = HeadingStyle.font /\ pdf.text_color = HeadingStyle.text_color)

\* a Paragraph drawn right after a Heading, in body style
C10_Witness ==
    \E k \in Processed :
        /\ k > 1
        /\ BranchOf(k - 1) = "Heading"
        /\ BranchOf(k) = "Paragraph"
        /\ StyleOf(TextOpsOf(k)[1]) = BodyStyle

----------------------------------------------------------------------------
\* send_email_with_pdf: the artifact name

Letters ==
    {"a", "b", "c", "g", "i", "l", "m", "n", "o", "s", "u", "B", "C", "P", "U+00E9"}
Digits == {"0", "1", "2", "3", "4", "5", "6", "7", "8", "9"}

\* c.isalnum(), on the characters of the model
IsAlnum(c) == c \in Letters \cup Digits

\* c.isalnum() or c==' '
NameCharKept(c) == IsAlnum(c) \/ c = " "

NameCharKeptOrDot(c) == NameCharKept(c) \/ c = "."

\* the filter also letting the dot of a file name through
SafeNameKeepsDots(name) ==
    Replace(Strip(SelectSeq(name, NameCharKeptOrDot)), <<" ">>, <<"_">>)

\* "".join([c for c in company_name if c.isalnum() or c==' ']).strip().replace(' ', '_')
SafeName(name) ==
    Replace(Strip(SelectSeq(name, NameCharKept)), <<" ">>, <<"_">>)

StrategySuffix ==
    <<"_", "S", "t", "r", "a", "t", "e", "g", "y", ".", "p", "d", "f">>

\* f"{safe_name}_Strategy.pdf"
PdfFilename(safe) == safe \o StrategySuffix

----------------------------------------------------------------------------
\* Specification SpecName: the artifact name derived from a company name

MaxNameLen == 4

NameAlphabet == {"a", "1", " ", "'", "&", ".", "/", "_"}

ScenarioCompany ==
    <<"B", "o", "b", "'", "s", " ", "P", "l", "u", "m", "b", "i", "n", "g", " ",
      "&", " ", "C", "o", ".">>

ScenarioSafeName ==
    <<"B", "o", "b", "s", "_", "P", "l", "u", "m", "b", "i", "n", "g", "_", "_",
      "C", "o">>

InitName ==
    /\ company_name \in StringsUpTo(NameAlphabet, MaxNameLen) \cup {ScenarioCompany}
    /\ safe_name = <<>> /\ pdf_filename = <<>> /\ npc = "start"
    /\ CleanIdle /\ RenderIdle /\ FlowIdle

DeriveName ==
    /\ npc = "start"
    /\ safe_name' = SafeName(company_name)
    /\ pdf_filename' = PdfFilename(safe_name')
    /\ npc' = "named"
    /\ UNCHANGED <<company_name, cleanVars, renderVars, flowVars>>

NextName == DeriveName

SpecName == InitName /\ [][NextName]_vars

Separator == "_"

\* the spaces of a name that lie between its first and its last letter or digit
InteriorSpaces(name) ==
    LET an == {k \in 1..Len(name) : name[k] \in Letters \cup Digits}
    IN  {k \in 1..Len(name) :
            /\ name[k] = " "
            /\ \E a \in an : a < k
            /\ \E a \in an : a > k}

----------------------------------------------------------------------------
\* send_email_with_pdf and main: the session flow

\* the names bound at module level when a function body runs
ModuleGlobals ==
    {"st", "genai", "smtplib", "MIMEText", "MIMEMultipart", "MIMEApplication",
     "FPDF", "os", "GOOGLE_API_KEY", "EMAIL_ADDRESS", "EMAIL_PASSWORD",
     "SMTP_SERVER", "SMTP_PORT", "YOUR_ADMIN_EMAIL", "clean_for_pdf", "PDFReport",
     "create_pdf_report", "generate_ppc_strategy", "send_email_with_pdf", "main"}

\* the parameters and locals of send_email_with_pdf bound when body is built
SendLocals == {"user_email", "strategy_text", "company_name", "msg"}

\* the steps of the try block, in order; each can raise
TrySteps ==
    <<"create_pdf_report", "open", "SMTP", "starttls", "login",
      "sendmail:user", "sendmail:admin", "quit">>

\* what the outside world does to one call: nothing fails, or one step raises
EnvOutcomes == {"ok"} \cup {TrySteps[j] : j \in 1..Len(TrySteps)}

\* try: ... return True / except Exception: st.error(...); return False
TryBlock(env) ==
    IF env = "ok"
    THEN [result |-> TRUE, calls |-> TrySteps, shown |-> <<>>]
    ELSE LET f == CHOOSE j \in 1..Len(TrySteps) : TrySteps[j] = env
         IN  [result |-> FALSE, calls |-> SubSeq(TrySteps, 1, f),
              shown |-> <<"error: Email/PDF Failed">>]

\* send_email_with_pdf: the body f-string reads first_name, which is neither a
\* parameter, a local nor a module global, before the try block is entered
send_email_with_pdf(user_email, strategy_text, company, env) ==
    IF "first_name" \notin SendLocals \cup ModuleGlobals
    THEN [raised |-> "NameError", result |-> FALSE, calls |-> <<>>, shown |-> <<>>,
          file |-> <<>>]
    ELSE LET t == TryBlock(env)
         IN  [raised |-> "", result |-> t.result, calls |-> t.calls, shown |-> t.shown,
              file |-> PdfFilename(SafeName(company))]

\* what a script run draws at each step before any form is handled
Page(s) ==
    CASE s = 1 -> <<"form: input_form">>
      [] s = 2 -> <<"success: Analysis Complete!", "form: email_gate">>
      [] s = 3 -> <<"success: PDF Report Sent!", "button: Start Over">>

----------------------------------------------------------------------------
\* Specification SpecFlow: one browser session of main

ErrorText ==
    <<"E", "r", "r", "o", "r", " ", "g", "e", "n", "e", "r", "a", "t", "i", "n",
      "g", " ", "s", "t", "r", "a", "t", "e", "g", "y", ":", " ", "e">>

\* response.text, or the error text generate_ppc_strategy returns instead
GeneratedTexts == {Scenario1, Scenario2, ErrorText}

FieldValues == {<<>>, <<"a">>}
CompanyValues == {<<>>, <<"a", " ", "b">>, ScenarioCompany}
BudgetValues == {500, 1500}
EmailValues == {<<>>, <<"a", "b">>, <<"a", "@", "b">>}

InitFlow ==
    /\ step = 1
    /\ strategy_data = <<>>
    /\ user_info = <<>>
    /\ shown = Page(1)
    /\ calls = <<>>
    /\ last = [act |-> "load", valid |-> FALSE, env |-> "ok"]
    /\ CleanIdle /\ RenderIdle /\ NameIdle

\* step 1: "GENERATE MY STRATEGY" pressed
SubmitInputForm ==
    /\ step = 1
    /\ \E first_name \in FieldValues, last_name \in FieldValues,
          company \in CompanyValues, company_url \in FieldValues,
          budget \in BudgetValues, strategy \in GeneratedTexts :
        LET filled == first_name # <<>> /\ last_name # <<>>
                          /\ company # <<>> /\ company_url # <<>>
        IN  /\ last' = [act |-> "input_form", valid |-> filled, env |-> "ok"]
            /\ IF ~filled
               THEN /\ shown' = Page(1) \o <<"warning: required fields">>
                    /\ calls' = <<>>
                    /\ UNCHANGED <<step, strategy_data, user_info>>
               ELSE /\ calls' = <<"generate_ppc_strategy">>
                    /\ strategy_data' = strategy
                    /\ user_info' = <<[company |-> company, budget |-> budget]>>
                    /\ step' = 2
                    /\ shown' = Page(2)
    /\ UNCHANGED <<cleanVars, renderVars, nameVars>>

\* step 2: "SEND ME THE PDF" pressed
SubmitEmailGate ==
    /\ step = 2
    /\ \E email \in EmailValues, env \in EnvOutcomes :
        LET has_at == \E k \in 1..Len(email) : email[k] = "@"
            r == send_email_with_pdf(email, strategy_data, user_info[1].company, env)
        IN  /\ last' = [act |-> "email_gate", valid |-> has_at, env |-> env]
            /\ IF ~has_at
               THEN /\ shown' = Page(2) \o <<"error: valid email">>
                    /\ calls' = <<>>
                    /\ step' = step
               ELSE IF r.raised # ""
               THEN \* the exception leaves main; the run ends where it was raised
                    /\ shown' = Page(2) \o <<"exception: " \o r.raised>>
                    /\ calls' = <<"send_email_with_pdf">> \o r.calls
                    /\ step' = step
               ELSE IF r.result
               THEN /\ step' = 3
                    /\ calls' = <<"send_email_with_pdf">> \o r.calls
                    /\ shown' = Page(3)
               ELSE /\ shown' = Page(2) \o r.shown
                    /\ calls' = <<"send_email_with_pdf">> \o r.calls
                    /\ step' = step
    /\ UNCHANGED <<strategy_data, user_info, cleanVars, renderVars, nameVars>>

\* step 3: "Start Over" pressed
StartOver ==
    /\ step = 3
    /\ step' = 1
    /\ shown' = Page(1)
    /\ calls' = <<>>
    /\ last' = [act |-> "start_over", valid |-> TRUE, env |-> "ok"]
    /\ UNCHANGED <<strategy_data, user_info, cleanVars, renderVars, nameVars>>

\* StartOver is enabled in no reachable state (step 3 is never entered), so the
\* next-state relation that TLC explores is written without it
NextFlow == SubmitInputForm \/ SubmitEmailGate

SpecFlow == InitFlow /\ [][NextFlow]_vars

\* C8: the flow is linear and completes: a filled input form calls
\* generate_ppc_strategy and moves to step 2; at step 2 an email containing '@',
\* with nothing failing in PDF writing or SMTP delivery, runs the renderer and
\* then the two sendmail calls, in that order, and reaches step 3.
C8_FlowCompletes ==
    /\ (last.act = "input_form" /\ last.valid) =>
           (step = 2 /\ calls = <<"generate_ppc_strategy">>)
    /\ (last.act = "email_gate" /\ last.valid /\ last.env = "ok") =>
           /\ step = 3
           /\ SelectSeq(calls, LAMBDA c : c \in {"create_pdf_report", "sendmail:user",
                                                 "sendmail:admin"})
                  = <<"create_pdf_report", "sendmail:user", "sendmail:admin">>

====
